---------------------------- MODULE Spec2Model ----------------------------
(***************************************************************************)
(* Model of the native audio feature core of FreeHands:                    *)
(*   fft_util.cpp          fft, ifft, bit_reverse                          *)
(*   mfcc_util.cpp         dct, apply_mel_filter_bank, compute_mfcc,       *)
(*                         create_mel_filter_bank, power_spectrum          *)
(*   audio_processing.cpp  the element-wise vector primitives              *)
(* The scalar build is modelled (HAVE_NEON is not defined by any file of   *)
(* the repository, so every "#if HAVE_NEON" block is compiled out); fft in *)
(* a build with HAVE_NEON is modelled apart, under SpecNeon, the loop      *)
(* counters of fft over the whole range of int under SpecLoops, and the    *)
(* buffers the library allocates, in either build, under SpecHeap.         *)
(*                                                                         *)
(* Arithmetic is exact.  The FFT is run for n in {1, 2, 4}, where every    *)
(* twiddle factor cosf/sinf produces is one of 1, -1, 0 in exact           *)
(* arithmetic, on integer samples.  1/n scaling yields rationals, kept as  *)
(* <<numerator, denominator>>.                                             *)
(***************************************************************************)
EXTENDS Integers, Sequences, FiniteSets, TLC

VARIABLES
    op,         \* which entry point the caller exercises
    phase,      \* position of the caller: "start", then one tag per call made
    n,          \* the size argument of fft / ifft
    x,          \* caller's input buffer (floats, index from 0)
    y,          \* output buffer of fft
    z,          \* output buffer of ifft (rationals)
    fftWrites,  \* indices of the output buffer written by the last fft / ifft
    dctCall,    \* arguments and buffers of a dct call
    melCall,    \* arguments and buffers of an apply_mel_filter_bank call
    mfccCall,   \* arguments, buffers and trace of a compute_mfcc call
    fftTrace,   \* the buffer of the last fft before and after bit_reverse
    history,    \* the MFCC calls one process has made so far, with results
    vecCall,    \* arguments, buffers and trace of a vector primitive call
    neonCall,   \* arguments, buffers and trace of an fft call, HAVE_NEON build
    loops,      \* loop counters of an fft call on 32-bit int
    heap        \* buffers allocated inside the library and not yet released

vars == <<op, phase, n, x, y, z, fftWrites, dctCall, melCall, mfccCall,
          fftTrace, history, vecCall, neonCall, loops, heap>>

-----------------------------------------------------------------------------
(* Bounds of the explored inputs *)

MaxVal == 1

Vals == {0 - 1} \cup (0 .. MaxVal)

\* sizes for which the transform is exact in integer arithmetic
Sizes == {1, 2, 4}

\* sizes the entry check of fft / ifft rejects
BadSizes == {0 - 2, 0, 3, 6}

-----------------------------------------------------------------------------
(* Rationals as <<numerator, denominator>>, denominator > 0 *)

RatOf(a) == <<a, 1>>

RatEq(p, q) == p[1] * q[2] = q[1] * p[2]

RatScale(a, d) == <<a, d>>

-----------------------------------------------------------------------------
(* fft_util.cpp *)

RECURSIVE BitAnd(_, _)
BitAnd(a, b) ==
    IF a = 0 \/ b = 0 THEN 0
    ELSE (IF a % 2 = 1 /\ b % 2 = 1 THEN 1 ELSE 0) + 2 * BitAnd(a \div 2, b \div 2)

\* the entry check of fft and of ifft:  n <= 0 || (n & (n - 1)) != 0
InvalidSize(k) == k <= 0 \/ BitAnd(k, k - 1) # 0

\* exchange of two floats of a buffer
SwapAt(buf, a, b) ==
    [k \in DOMAIN buf |-> IF k = a THEN buf[b] ELSE IF k = b THEN buf[a] ELSE buf[k]]

\* inner loop of bit_reverse:  for (; j >= bit; bit >>= 1) j -= bit;
RECURSIVE BitLoop(_, _)
BitLoop(j, bit) ==
    IF j >= bit THEN BitLoop(j - bit, bit \div 2) ELSE <<j, bit>>

\* bit_reverse(x, n) from loop index i with carried j
RECURSIVE BitReverseFrom(_, _, _, _)
BitReverseFrom(buf, k, i, j) ==
    IF i >= k THEN buf
    ELSE LET jb == BitLoop(j, k \div 2)
             j2 == jb[1] + jb[2]
             b2 == IF i < j2 THEN SwapAt(SwapAt(buf, i, j2), i + 1, j2 + 1)
                   ELSE buf
         IN  BitReverseFrom(b2, k, i + 1, j2)

bit_reverse(buf, k) == BitReverseFrom(buf, k, 1, 0)

\* cosf / sinf of q quarter turns (q * pi/2), exact
cosf_q(q) == CASE q % 4 = 0 -> 1 [] q % 4 = 1 -> 0 [] q % 4 = 2 -> 0 - 1 [] OTHER -> 0

sinf_q(q) == CASE q % 4 = 0 -> 0 [] q % 4 = 1 -> 1 [] q % 4 = 2 -> 0 [] OTHER -> 0 - 1

\* j * theta with theta = -2*pi/len, in quarter turns (len in {2, 4})
QuarterTurns(j, len) == 0 - ((4 * j) \div len)

\* Butterfly with the lower output's real part added instead of subtracted
Butterfly_AddLower(out, i, j, len) ==
    LET half_len == len \div 2
        w_real == cosf_q(QuarterTurns(j, len))
        w_imag == sinf_q(QuarterTurns(j, len))
        idx1   == 2 * (i + j)
        idx2   == 2 * (i + j + half_len)
        t_real == w_real * out[idx2] - w_imag * out[idx2 + 1]
        t_imag == w_real * out[idx2 + 1] + w_imag * out[idx2]
        u_real == out[idx1]
        u_imag == out[idx1 + 1]
    IN  [k \in DOMAIN out |->
            IF k = idx1 THEN u_real + t_real
            ELSE IF k = idx1 + 1 THEN u_imag + t_imag
            ELSE IF k = idx2 THEN u_real + t_real
            ELSE IF k = idx2 + 1 THEN u_imag - t_imag
            ELSE out[k]]

\* one butterfly of the scalar stage loop
Butterfly(out, i, j, len) ==
    LET half_len == len \div 2
        w_real == cosf_q(QuarterTurns(j, len))
        w_imag == sinf_q(QuarterTurns(j, len))
        idx1   == 2 * (i + j)
        idx2   == 2 * (i + j + half_len)
        t_real == w_real * out[idx2] - w_imag * out[idx2 + 1]
        t_imag == w_real * out[idx2 + 1] + w_imag * out[idx2]
        u_real == out[idx1]
        u_imag == out[idx1 + 1]
    IN  [k \in DOMAIN out |->
            IF k = idx1 THEN u_real + t_real
            ELSE IF k = idx1 + 1 THEN u_imag + t_imag
            ELSE IF k = idx2 THEN u_real - t_real
            ELSE IF k = idx2 + 1 THEN u_imag - t_imag
            ELSE out[k]]

\* for (i = 0; i < n; i += len) for (j = 0; j < half_len; j++)
RECURSIVE StageLoop(_, _, _, _, _)
StageLoop(out, k, len, i, j) ==
    IF i >= k THEN out
    ELSE IF j >= len \div 2 THEN StageLoop(out, k, len, i + len, 0)
    ELSE StageLoop(Butterfly(out, i, j, len), k, len, i, j + 1)

\* for (len = 2; len <= n; len <<= 1)
RECURSIVE Stages(_, _, _)
Stages(out, k, len) ==
    IF len > k THEN out ELSE Stages(StageLoop(out, k, len, 0, 0), k, 2 * len)

\* output[2*i] = input[2*i]; output[2*i + 1] = 0.0f;   for i in [0, n)
CopyLoop(input, output, k) ==
    [e \in DOMAIN output |->
        IF e < 2 * k THEN (IF e % 2 = 0 THEN input[e] ELSE 0) ELSE output[e]]

\* fft with the size check made after the copy loop instead of at entry
fft_CheckAfterCopy(input, output, k) ==
    IF InvalidSize(k) THEN CopyLoop(input, output, k)
    ELSE Stages(bit_reverse(CopyLoop(input, output, k), k), k, 2)

\* fft whose stage loop never runs (for (len = 2; len < 2; ...))
fft_NoStages(input, output, k) ==
    IF InvalidSize(k) THEN output
    ELSE bit_reverse(CopyLoop(input, output, k), k)

\* fft(input, output, n): the output buffer after the call
fft(input, output, k) ==
    IF InvalidSize(k) THEN output
    ELSE Stages(bit_reverse(CopyLoop(input, output, k), k), k, 2)

\* the buffer bit_reverse receives from the copy loop of fft and the buffer
\* it leaves to the butterfly stages
fft_trace(input, output, k) ==
    IF InvalidSize(k) THEN [op |-> "none"]
    ELSE [op |-> "bit_reverse", n |-> k,
          before |-> CopyLoop(input, output, k),
          after |-> bit_reverse(CopyLoop(input, output, k), k)]

\* indices of output that fft stores to
fft_writes(k) == IF InvalidSize(k) THEN {} ELSE 0 .. (2 * k - 1)

\* output[i] = input[i]; output[i + 1] = -input[i + 1];   for i in [0, 2n) step 2
ConjCopy(input, output, k) ==
    [e \in DOMAIN output |->
        IF e < 2 * k THEN (IF e % 2 = 0 THEN input[e] ELSE 0 - input[e]) ELSE output[e]]

\* output[i] *= scale; output[i + 1] = -output[i + 1] * scale;   scale = 1.0f / n
ScaleConj(output, k) ==
    [e \in DOMAIN output |->
        IF e < 2 * k
        THEN (IF e % 2 = 0 THEN RatScale(output[e], k) ELSE RatScale(0 - output[e], k))
        ELSE RatOf(output[e])]

\* ifft(input, output, n): the output buffer after the call.  output holds
\* floats on entry (passed as rationals with denominator 1).
ifft(input, output, k) ==
    IF InvalidSize(k) THEN output
    ELSE LET raw == [e \in DOMAIN output |-> output[e][1]]
             c   == ConjCopy(input, raw, k)
         IN  ScaleConj(fft(c, c, k), k)

\* bit_reverse inside ifft's call fft(output, output, n)
ifft_trace(input, output, k) ==
    IF InvalidSize(k) THEN [op |-> "none"]
    ELSE LET raw == [e \in DOMAIN output |-> output[e][1]]
             c   == ConjCopy(input, raw, k)
         IN  fft_trace(c, c, k)

ifft_writes(k) == IF InvalidSize(k) THEN {} ELSE 0 .. (2 * k - 1)

-----------------------------------------------------------------------------
(* fft_util.cpp, fft in a build with HAVE_NEON *)

\* memory from the start of the output buffer: the 2n floats of the buffer
\* followed by the floats that happen to lie behind it
NeonMemory(output, k, garbage) ==
    [e \in 0 .. (2 * k + 3) |-> IF e < 2 * k THEN output[e] ELSE garbage[e]]

\* vld2q_f32(p + base): 8 consecutive floats, de-interleaved into lanes 1 .. 4
vld2q_f32(mem, base) ==
    <<[re |-> mem[base],     im |-> mem[base + 1]],
      [re |-> mem[base + 2], im |-> mem[base + 3]],
      [re |-> mem[base + 4], im |-> mem[base + 5]],
      [re |-> mem[base + 6], im |-> mem[base + 7]]>>

\* vst2q_f32(p + base, v): lanes 1 .. 4 stored interleaved to 8 consecutive floats
vst2q_f32(mem, base, v) ==
    [mem EXCEPT ![base]     = v[1].re, ![base + 1] = v[1].im,
                ![base + 2] = v[2].re, ![base + 3] = v[2].im,
                ![base + 4] = v[3].re, ![base + 5] = v[3].im,
                ![base + 6] = v[4].re, ![base + 7] = v[4].im]

\* the floats one 4-lane load or store at base touches
LaneIndices(base) == base .. (base + 7)

\* new_real = w_real * w_step_real - w_imag * w_step_imag;
\* new_imag = w_real * w_step_imag + w_imag * w_step_real
TwiddleStep(w, len) ==
    LET w_step_real == cosf_q(QuarterTurns(1, len))
        w_step_imag == sinf_q(QuarterTurns(1, len))
    IN  [re |-> w.re * w_step_real - w.im * w_step_imag,
         im |-> w.re * w_step_imag + w.im * w_step_real]

\* t = b * w, lane by lane
ComplexMul(p, q) ==
    [re |-> p.re * q.re - p.im * q.im, im |-> p.re * q.im + p.im * q.re]

ComplexAdd(p, q) == [re |-> p.re + q.re, im |-> p.im + q.im]

ComplexSub(p, q) == [re |-> p.re - q.re, im |-> p.im - q.im]

\* one iteration of the loop over j: two loads, four lanes of twiddles,
\* the butterflies, two stores.  st holds the memory, the running twiddle
\* and the indices loaded and stored so far.
NeonStep(st, i, j, len) ==
    LET half_len == len \div 2
        idx  == 2 * (i + j)
        a    == vld2q_f32(st.mem, idx)
        b    == vld2q_f32(st.mem, idx + 2 * half_len)
        w1   == st.w
        w2   == TwiddleStep(w1, len)
        w3   == TwiddleStep(w2, len)
        w4   == TwiddleStep(w3, len)
        t    == <<ComplexMul(b[1], w1), ComplexMul(b[2], w2),
                  ComplexMul(b[3], w3), ComplexMul(b[4], w4)>>
        out1 == <<ComplexAdd(a[1], t[1]), ComplexAdd(a[2], t[2]),
                  ComplexAdd(a[3], t[3]), ComplexAdd(a[4], t[4])>>
        out2 == <<ComplexSub(a[1], t[1]), ComplexSub(a[2], t[2]),
                  ComplexSub(a[3], t[3]), ComplexSub(a[4], t[4])>>
    IN  [st EXCEPT
            !.mem    = vst2q_f32(vst2q_f32(st.mem, 2 * (i + j), out1),
                                 2 * (i + j + half_len), out2),
            !.w      = TwiddleStep(w4, len),
            !.loads  = st.loads \cup LaneIndices(idx) \cup LaneIndices(idx + 2 * half_len),
            !.stores = st.stores \cup LaneIndices(2 * (i + j))
                                 \cup LaneIndices(2 * (i + j + half_len))]

\* for (i = 0; i < n; i += len) { w = 1; for (j = 0; j < half_len; j += 4) ... }
RECURSIVE NeonStageLoop(_, _, _, _, _)
NeonStageLoop(st, k, len, i, j) ==
    IF i >= k THEN st
    ELSE IF j >= len \div 2
    THEN NeonStageLoop([st EXCEPT !.w = [re |-> 1, im |-> 0]], k, len, i + len, 0)
    ELSE NeonStageLoop(NeonStep(st, i, j, len), k, len, i, j + 4)

\* for (len = 2; len <= n; len <<= 1): the vector branch with "continue"
\* when len >= 4, the scalar loops otherwise
RECURSIVE NeonStages(_, _, _)
NeonStages(st, k, len) ==
    IF len > k THEN st
    ELSE IF len >= 4
    THEN NeonStages(
             [NeonStageLoop([st EXCEPT !.w = [re |-> 1, im |-> 0]], k, len, 0, 0)
                 EXCEPT !.vecStages = st.vecStages \cup {len}],
             k, 2 * len)
    ELSE NeonStages(
             [st EXCEPT !.mem = StageLoop(st.mem, k, len, 0, 0)], k, 2 * len)

\* fft(input, output, n) with HAVE_NEON: the memory at output after the
\* call, the stage lengths that took the vector branch, and the indices the
\* 4-lane loads and stores touched
fft_neon(input, output, k, garbage) ==
    IF InvalidSize(k)
    THEN [mem |-> output, w |-> [re |-> 1, im |-> 0],
          loads |-> {}, stores |-> {}, vecStages |-> {}]
    ELSE NeonStages(
             [mem |-> NeonMemory(bit_reverse(CopyLoop(input, output, k), k), k, garbage),
              w |-> [re |-> 1, im |-> 0],
              loads |-> {}, stores |-> {}, vecStages |-> {}],
             k, 2)

-----------------------------------------------------------------------------
(* fft_util.cpp, the loop counters of fft on 32-bit int *)

\* the largest and the smallest value of int
INT_MAX == 2147483647

INT_MIN == 0 - INT_MAX - 1

\* v << 1 does not fit int
ShiftOverflows(v) == v > INT_MAX \div 2 \/ v < INT_MIN \div 2

\* len <<= 1 on a 32-bit two's complement int: the low 32 bits of 2 * v
ShiftLeft1(v) ==
    IF v > INT_MAX \div 2 THEN (v - 1073741824) * 2 + INT_MIN
    ELSE IF v < INT_MIN \div 2 THEN ((v + 1073741824) * 2 + INT_MAX) + 1
    ELSE 2 * v

\* the values of bit with which the inner loop of bit_reverse exits, over
\* the iterations i, i + 1, ..., n - 1 of the outer loop with carried j
RECURSIVE BitReverseExitBits(_, _, _)
BitReverseExitBits(k, i, j) ==
    IF i >= k THEN {}
    ELSE LET jb == BitLoop(j, k \div 2)
         IN  {jb[2]} \cup BitReverseExitBits(k, i + 1, jb[1] + jb[2])

\* the largest index the copy loop and the butterflies of a stage use:
\* 2*i + 1 with i = n - 1, idx2 + 1 with i + j + half_len = n - 1
LargestIndex(k) == (k - 1) * 2 + 1

-----------------------------------------------------------------------------
(* mfcc_util.cpp *)

\* Values of the cepstral stage.  logf and cosf of arbitrary arguments have
\* no integer value, so a float is either a literal or the expression the
\* code evaluates to obtain it.
Lit(v) == [k |-> "lit", v |-> v]

\* logf(energy + 1e-10f), energy an exact rational
LogF(energy) == [k |-> "logf", of |-> energy, plus |-> "1e-10f"]

RatAdd(p, q) == <<p[1] * q[2] + q[1] * p[2], p[2] * q[2]>>

RatMulInt(a, q) == <<a * q[1], q[2]>>

RECURSIVE Pow(_, _)
Pow(a, e) == IF e <= 0 THEN 1 ELSE a * Pow(a, e - 1)

Max(a, b) == IF a >= b THEN a ELSE b

Min(a, b) == IF a <= b THEN a ELSE b

\* const int frame_size = 1024;
frame_size == 1024

\* std::vector<float>(fft_size / 2 + 1, 0.0f): the length of a filter row
FilterRowSize(fft_size) == fft_size \div 2 + 1

\* bin[i] before clamping: static_cast<int>((fft_size + 1) * hz_points[i] / sample_rate)
\* with hz_points[i] = mel_to_hz(i * hz_to_mel(sample_rate / 2) / (num_filters + 1))
\*                   = 700 * ((1 + sample_rate/1400)^(i / (num_filters + 1)) - 1).
\* For sample_rate = 1400 * t:   b <= (fft_size + 1) * hz / sample_rate   iff
\*   (fft_size + 1 + 2*b*t)^(num_filters + 1) <= (1 + t)^i * (fft_size + 1)^(num_filters + 1)
BinRaw(i, num_filters, fft_size, sample_rate) ==
    LET t  == sample_rate \div 1400
        ok == {b \in 0 .. (fft_size + 1) :
                 Pow(fft_size + 1 + 2 * b * t, num_filters + 1)
                    <= Pow(1 + t, i) * Pow(fft_size + 1, num_filters + 1)}
    IN  CHOOSE b \in ok : \A c \in ok : c <= b

\* bin[i] clamped from above only
Bin_NoLowerClamp(i, num_filters, fft_size, sample_rate) ==
    Min(fft_size \div 2, BinRaw(i, num_filters, fft_size, sample_rate))

\* bin[i] = std::max(1, std::min(fft_size / 2, bin[i]))
Bin(i, num_filters, fft_size, sample_rate) ==
    Max(1, Min(fft_size \div 2, BinRaw(i, num_filters, fft_size, sample_rate)))

\* the boundaries bin[0 .. num_filters + 1]
mel_bins(num_filters, fft_size, sample_rate) ==
    [i \in 0 .. (num_filters + 1) |-> Bin(i, num_filters, fft_size, sample_rate)]

\* row i with the falling side written as (j - center) / (right - center)
FilterRow_FallingNotInverted(i, num_filters, fft_size, sample_rate) ==
    LET left   == Bin(i, num_filters, fft_size, sample_rate)
        center == Bin(i + 1, num_filters, fft_size, sample_rate)
        right  == Bin(i + 2, num_filters, fft_size, sample_rate)
    IN  [j \in 0 .. (FilterRowSize(fft_size) - 1) |->
            IF center <= j /\ j < right
            THEN <<j - center, right - center>>
            ELSE IF left <= j /\ j < center
            THEN <<j - left, center - left>>
            ELSE <<0, 1>>]

\* row i of the filter bank: the two loops over [left, center) and [center, right)
FilterRow(i, num_filters, fft_size, sample_rate) ==
    LET left   == Bin(i, num_filters, fft_size, sample_rate)
        center == Bin(i + 1, num_filters, fft_size, sample_rate)
        right  == Bin(i + 2, num_filters, fft_size, sample_rate)
    IN  [j \in 0 .. (FilterRowSize(fft_size) - 1) |->
            IF center <= j /\ j < right
            THEN <<(right - center) - (j - center), right - center>>
            ELSE IF left <= j /\ j < center
            THEN <<j - left, center - left>>
            ELSE <<0, 1>>]

create_mel_filter_bank(num_filters, fft_size, sample_rate) ==
    [i \in 0 .. (num_filters - 1) |-> FilterRow(i, num_filters, fft_size, sample_rate)]

\* the quotients with both loops running to their upper bound inclusive
filter_divisions_Inclusive(num_filters, fft_size, sample_rate) ==
    UNION {LET left   == Bin(i, num_filters, fft_size, sample_rate)
               center == Bin(i + 1, num_filters, fft_size, sample_rate)
               right  == Bin(i + 2, num_filters, fft_size, sample_rate)
           IN  {[filter |-> i, side |-> "left", j |-> j,
                 num |-> j - left, den |-> center - left] : j \in left .. center}
               \cup
               {[filter |-> i, side |-> "right", j |-> j,
                 num |-> j - center, den |-> right - center] : j \in center .. right}
           : i \in 0 .. (num_filters - 1)}

\* the quotients create_mel_filter_bank evaluates: one per iteration of the
\* loop over [left, center) and of the loop over [center, right)
filter_divisions(num_filters, fft_size, sample_rate) ==
    UNION {LET left   == Bin(i, num_filters, fft_size, sample_rate)
               center == Bin(i + 1, num_filters, fft_size, sample_rate)
               right  == Bin(i + 2, num_filters, fft_size, sample_rate)
           IN  {[filter |-> i, side |-> "left", j |-> j,
                 num |-> j - left, den |-> center - left] : j \in left .. (center - 1)}
               \cup
               {[filter |-> i, side |-> "right", j |-> j,
                 num |-> j - center, den |-> right - center] : j \in center .. (right - 1)}
           : i \in 0 .. (num_filters - 1)}

\* apply_mel_filter_bank passes its entry check and builds the filter bank
filter_bank_built(power_null, mel_null, fft_size, num_filters) ==
    ~(power_null \/ mel_null \/ fft_size <= 0 \/ num_filters <= 0)

\* energy += power_ptr[j] * filter_ptr[j]   for j in [0, fft_size)
RECURSIVE DotUpTo(_, _, _)
DotUpTo(power, row, j) ==
    IF j <= 0 THEN <<0, 1>>
    ELSE RatAdd(DotUpTo(power, row, j - 1), RatMulInt(power[j - 1], row[j - 1]))

\* apply_mel_filter_bank: whether it returned before the filter loop, the
\* indices of power_spectrum it read, and the values stored to mel_energies
apply_mel_filter_bank(power, power_null, mel_null, fft_size, sample_rate, num_filters) ==
    IF power_null \/ mel_null \/ fft_size <= 0 \/ num_filters <= 0
    THEN [early |-> TRUE, reads |-> {}, stores |-> <<>>]
    ELSE IF num_filters = 0 \/ FilterRowSize(fft_size) # fft_size
    THEN [early |-> TRUE, reads |-> {}, stores |-> <<>>]
    ELSE LET filter_bank == create_mel_filter_bank(num_filters, fft_size, sample_rate)
         IN  [early  |-> FALSE,
              reads  |-> 0 .. (fft_size - 1),
              stores |-> [i \in 0 .. (num_filters - 1) |->
                             LogF(DotUpTo(power, filter_bank[i], fft_size))]]

\* input[i] * cosf(M_PI * k * (2 * i + 1) / (2.0f * m)): the angle is kept as
\* the fraction of pi
CosTerm(v, k, i, m) == [v |-> v, angle |-> <<k * (2 * i + 1), 2 * m>>]

\* output[k] = scale * k_scale * sum, scale = sqrtf(2.0f / m),
\* k_scale = 1/sqrtf(2.0f) for k = 0 and 1 otherwise
DctCoef(at, k, m) ==
    [scale   |-> <<2, m>>,
     k_scale |-> IF k = 0 THEN "1/sqrt2" ELSE "1",
     terms   |-> [i \in 0 .. (m - 1) |-> CosTerm(at[i], k, i, m)]]

\* dct(input, output, n, m): the indices of input read and the values stored
\* to output.  garbage gives the floats found past the end of input.
dct(input, input_null, output_null, k, m, garbage) ==
    IF input_null \/ output_null \/ k <= 0 \/ m <= 0
    THEN [reads |-> {}, stores |-> <<>>]
    ELSE LET at == [i \in 0 .. (m - 1) |->
                       IF i \in DOMAIN input THEN input[i] ELSE garbage[i]]
         IN  [reads  |-> 0 .. (m - 1),
              stores |-> [c \in 0 .. (k - 1) |-> DctCoef(at, c, m)]]

\* the float fft stored at index i of its interleaved output buffer
FftOut(i) == [k |-> "fft_out", v |-> i]

\* power_spectrum(fft_real, fft_imag, power, n): the terms of
\* power[i] = fft_real[i] * fft_real[i] + fft_imag[i] * fft_imag[i] + 1e-10f
power_spectrum(fft_real, fft_imag, k) ==
    IF k <= 0 THEN <<>>
    ELSE [i \in 0 .. (k - 1) |->
             [re |-> fft_real[i], im |-> fft_imag[i], plus |-> "1e-10f"]]

\* compute_mfcc(audio_data, num_samples, sample_rate, mfcc, num_mfcc, num_filters)
\* c:       the arguments (audio_null, mfcc_null, num_samples, sample_rate,
\*          num_mfcc, num_filters)
\* crash:   where the out-of-bounds accesses of the call end the process:
\*          "none" (they go unnoticed), "copy" (reading past a short audio
\*          buffer), "fft" (during the stores past the end of fft_real) or
\*          "exit" (when the corrupted heap is released)
\* garbage: the floats found past the end of mel_energies
\* The frame buffers are described by the indices accessed; mel_energies and
\* mfcc hold values.
compute_mfcc(c, crash, garbage) ==
    LET copied   == [stages     |-> <<"copy">>,
                     audioReads |-> IF c.audio_null THEN {} ELSE 0 .. (frame_size - 1),
                     audioWrites |-> {},
                     windowedReads |-> {}, fftRealWrites |-> {},
                     mfccStores |-> <<>>, mel_energies |-> <<>>, power |-> <<>>,
                     outcome    |-> "crashed"]
         \* std::vector<float> windowed(frame_size), fft_real(frame_size)
         fftDone  == [copied EXCEPT
                        !.stages = <<"copy", "window", "fft">>,
                        !.windowedReads = {2 * i : i \in 0 .. (frame_size - 1)},
                        !.fftRealWrites = fft_writes(frame_size)]
         \* power_spectrum(fft_real, fft_imag, power, frame_size / 2 + 1)
         \* fft_real holds the first frame_size floats fft stored,
         \* std::vector<float> fft_imag(frame_size, 0.0f) is never written
         fft_real == [i \in 0 .. (frame_size - 1) |-> FftOut(i)]
         fft_imag == [i \in 0 .. (frame_size - 1) |-> Lit(0)]
         power    == power_spectrum(fft_real, fft_imag, frame_size \div 2 + 1)
         powDone  == [fftDone EXCEPT !.stages = <<"copy", "window", "fft", "power">>,
                                     !.power = power]
         \* std::vector<float> mel_energies(num_filters)
         mel0     == [i \in 0 .. (c.num_filters - 1) |-> Lit(0)]
         mel      == apply_mel_filter_bank(power, FALSE, c.num_filters = 0,
                                           frame_size, c.sample_rate, c.num_filters)
         mel1     == [i \in DOMAIN mel0 |->
                         IF i \in DOMAIN mel.stores THEN mel.stores[i] ELSE mel0[i]]
         d        == dct(mel1, c.num_filters = 0, c.mfcc_null,
                         c.num_filters, c.num_mfcc, garbage)
    IN  IF c.audio_null \/ crash = "copy" THEN copied
        ELSE IF crash = "fft" THEN fftDone
        ELSE IF c.num_filters < 0
        THEN [powDone EXCEPT !.outcome = "threw"]
        ELSE [powDone EXCEPT
                !.stages = <<"copy", "window", "fft", "power", "mel", "dct">>,
                !.mel_energies = mel1,
                !.mfccStores = d.stores,
                !.outcome = IF crash = "exit" THEN "crashed" ELSE "returned"]

-----------------------------------------------------------------------------
(* audio_processing.cpp, the element-wise vector primitives (scalar build) *)

\* the right-hand side of one element store; ov is out[i] before the store
ElementOp(name, av, bv, ov, scale) ==
    CASE name = "vector_add"                 -> av + bv
      [] name = "vector_subtract"            -> av - bv
      [] name = "vector_multiply"            -> av * bv
      [] name = "vector_scale"               -> av * scale
      [] name = "vector_multiply_accumulate" -> ov + av * bv

\* one statement out[i] = a[i] op b[i].  st.out is the memory of out and
\* st.writes the indices stored so far, in order; when out aliases a the
\* operand a[i] is read from that same memory.
ElementStore(st, c, i) ==
    LET av == IF c.alias THEN st.out[i] ELSE c.a[i]
    IN  [out    |-> [st.out EXCEPT ![i] = ElementOp(c.op, av, c.b[i], st.out[i], c.scale)],
         writes |-> Append(st.writes, i)]

\* for (; i <= n - 4; i += 4) { four element statements }
RECURSIVE UnrolledLoop(_, _, _)
UnrolledLoop(st, c, i) ==
    IF i <= c.n - 4
    THEN UnrolledLoop(
             ElementStore(ElementStore(ElementStore(ElementStore(st, c, i),
                                                    c, i + 1), c, i + 2), c, i + 3),
             c, i + 4)
    ELSE [st |-> st, i |-> i]

\* the remainder loop left out
RemainderLoop_Skipped(st, c, i) == st

\* for (; i < n; i++) out[i] = ...
RECURSIVE RemainderLoop(_, _, _)
RemainderLoop(st, c, i) ==
    IF i < c.n THEN RemainderLoop(ElementStore(st, c, i), c, i + 1) ELSE st

\* the common body of the five primitives: int i = 0; unrolled loop;
\* remainder loop
vector_loops(c) ==
    LET u == UnrolledLoop([out |-> c.out, writes |-> <<>>], c, 0)
    IN  RemainderLoop(u.st, c, u.i)

vector_add(c) == vector_loops([c EXCEPT !.op = "vector_add"])

vector_subtract(c) == vector_loops([c EXCEPT !.op = "vector_subtract"])

vector_multiply(c) == vector_loops([c EXCEPT !.op = "vector_multiply"])

vector_scale(c) == vector_loops([c EXCEPT !.op = "vector_scale"])

vector_multiply_accumulate(c) ==
    vector_loops([c EXCEPT !.op = "vector_multiply_accumulate"])

-----------------------------------------------------------------------------
(* Callers *)

BufLen(k) == IF k \in Sizes THEN 2 * k ELSE 4

Buffers(k) == [0 .. (BufLen(k) - 1) -> Vals]

Filled(k, v) == [e \in 0 .. (BufLen(k) - 1) |-> v]

NoCall == [op |-> "none"]

InitFft ==
    /\ op \in {"fft", "ifft", "roundtrip"}
    /\ phase = "start"
    /\ n \in Sizes \cup BadSizes
    /\ x \in Buffers(n)
    /\ \E v \in {0, 1} : y = Filled(n, v) /\ z = Filled(n, RatOf(v))
    /\ fftWrites = {}
    /\ dctCall = NoCall
    /\ melCall = NoCall
    /\ mfccCall = NoCall
    /\ fftTrace = NoCall /\ loops = NoCall /\ heap = <<>>
    /\ history = <<>>
    /\ vecCall = NoCall
    /\ neonCall = NoCall

\* fft(x, y, n)
CallFft ==
    /\ op \in {"fft", "roundtrip"}
    /\ phase = "start"
    /\ y' = fft(x, y, n)
    /\ fftWrites' = fft_writes(n)
    /\ fftTrace' = fft_trace(x, y, n)
    /\ phase' = "fft"
    /\ UNCHANGED <<op, n, x, z, dctCall, melCall, mfccCall, history, vecCall, neonCall, loops, heap>>

\* ifft(x, z, n)
CallIfft ==
    /\ op = "ifft"
    /\ phase = "start"
    /\ z' = ifft(x, z, n)
    /\ fftWrites' = ifft_writes(n)
    /\ fftTrace' = ifft_trace(x, z, n)
    /\ phase' = "ifft"
    /\ UNCHANGED <<op, n, x, y, dctCall, melCall, mfccCall, history, vecCall, neonCall, loops, heap>>

\* ifft(y, z, n) on the result of fft(x, y, n)
CallIfftOfFft ==
    /\ op = "roundtrip"
    /\ phase = "fft"
    /\ z' = ifft(y, z, n)
    /\ fftWrites' = ifft_writes(n)
    /\ fftTrace' = ifft_trace(y, z, n)
    /\ phase' = "roundtrip"
    /\ UNCHANGED <<op, n, x, y, dctCall, melCall, mfccCall, history, vecCall, neonCall, loops, heap>>

NextFft == CallFft \/ CallIfft \/ CallIfftOfFft

SpecFft == InitFft /\ [][NextFft]_vars

-----------------------------------------------------------------------------
(* Callers of the MFCC stages *)

MaxDct == 3

MaxCoef == 2

NoBuf == <<>>

\* dct(input[n], output[m], n, m) with buffers of the documented shape
DctCalls ==
    { [op |-> "dct", n |-> k, m |-> m, input |-> inp,
       input_null |-> nulls[1], output_null |-> nulls[2],
       out_cap |-> m, reads |-> {}, stores |-> NoBuf] :
        k \in 0 .. MaxDct, m \in 0 .. MaxDct,
        inp \in UNION {[0 .. (kk - 1) -> {Lit(v) : v \in Vals}] : kk \in 0 .. MaxDct},
        nulls \in {<<FALSE, FALSE>>, <<TRUE, FALSE>>, <<FALSE, TRUE>>} }

WellFormedDct(c) == DOMAIN c.input = 0 .. (c.n - 1)

\* floats past the end of a buffer of inCap elements, for reads up to index m - 1
GarbageFor(inCap, m) == [Max(inCap, 0) .. (m - 1) -> {Lit(v) : v \in Vals}]

MelFftSizes == {0, 1, 2, 4, 8}

MelSampleRates == {1400, 2800}

\* apply_mel_filter_bank(power[fftSize/2+1], fftSize, sampleRate, out[numFilters], numFilters)
MelCalls ==
    { [op |-> "apply_mel_filter_bank", fft_size |-> f, sample_rate |-> sr,
       num_filters |-> nf, power |-> pw,
       power_null |-> nulls[1], mel_null |-> nulls[2],
       early |-> FALSE, reads |-> {}, stores |-> NoBuf,
       built |-> FALSE, bins |-> NoBuf, filter_bank |-> NoBuf, divisions |-> {}] :
        f \in MelFftSizes, sr \in MelSampleRates, nf \in 0 .. MaxCoef + 1,
        pw \in UNION {[0 .. (FilterRowSize(ff) - 1) -> 0 .. MaxVal] : ff \in MelFftSizes},
        nulls \in {<<FALSE, FALSE>>, <<TRUE, FALSE>>, <<FALSE, TRUE>>} }

WellFormedMel(c) == DOMAIN c.power = 0 .. (FilterRowSize(c.fft_size) - 1)

\* (num_mfcc, num_filters) of the compute_mfcc calls: small counts, the
\* rejected ones, and the 13 coefficients / 26 filters of the tests
MfccCounts ==
    (((0 - 1) .. MaxCoef) \X ((0 - 1) .. MaxCoef)) \cup {<<13, 26>>}

MfccCalls ==
    { [op |-> "compute_mfcc", audio |-> a, num_samples |-> ns, sample_rate |-> 16000,
       num_mfcc |-> cnt[1], num_filters |-> cnt[2],
       audio_null |-> nulls[1], mfcc_null |-> nulls[2],
       stages |-> <<>>, audioReads |-> {}, audioWrites |-> {}, windowedReads |-> {}, fftRealWrites |-> {},
       mfccStores |-> NoBuf, mel_energies |-> NoBuf, power |-> NoBuf,
       outcome |-> "pending"] :
        a \in {"silence", "sine"}, ns \in {512, 1024, 2048}, cnt \in MfccCounts,
        nulls \in {<<FALSE, FALSE>>, <<TRUE, FALSE>>, <<FALSE, TRUE>>} }

\* fft(windowed, fft_real, frame_size) always stores past the end of
\* fft_real; std::copy reads past the end of a short audio buffer
CrashPoints(c) ==
    {"none", "fft", "exit"} \cup (IF c.num_samples < frame_size THEN {"copy"} ELSE {})

InitMfcc ==
    /\ phase = "start"
    /\ n = 0 /\ x = NoBuf /\ y = NoBuf /\ z = NoBuf /\ fftWrites = {}
    /\ fftTrace = NoCall /\ loops = NoCall /\ heap = <<>> /\ history = <<>> /\ vecCall = NoCall /\ neonCall = NoCall
    /\ \/ /\ op = "dct"
          /\ dctCall \in DctCalls /\ WellFormedDct(dctCall)
          /\ melCall = NoCall /\ mfccCall = NoCall
       \/ /\ op = "apply_mel_filter_bank"
          /\ melCall \in MelCalls /\ WellFormedMel(melCall)
          /\ dctCall = NoCall /\ mfccCall = NoCall
       \/ /\ op = "compute_mfcc"
          /\ mfccCall \in MfccCalls
          /\ dctCall = NoCall /\ melCall = NoCall

\* dct(input, output, n, m)
CallDct ==
    /\ op = "dct" /\ phase = "start"
    /\ \E garbage \in GarbageFor(dctCall.n, dctCall.m) :
          LET r == dct(dctCall.input, dctCall.input_null, dctCall.output_null,
                       dctCall.n, dctCall.m, garbage)
          IN  dctCall' = [dctCall EXCEPT !.reads = r.reads, !.stores = r.stores]
    /\ phase' = "dct"
    /\ UNCHANGED <<op, n, x, y, z, fftWrites, melCall, mfccCall, fftTrace, history, vecCall, neonCall, loops, heap>>

\* apply_mel_filter_bank(power, fft_size, sample_rate, mel_energies, num_filters)
CallMel ==
    /\ op = "apply_mel_filter_bank" /\ phase = "start"
    /\ LET r == apply_mel_filter_bank(melCall.power, melCall.power_null, melCall.mel_null,
                                       melCall.fft_size, melCall.sample_rate,
                                       melCall.num_filters)
           b == filter_bank_built(melCall.power_null, melCall.mel_null,
                                  melCall.fft_size, melCall.num_filters)
       IN  melCall' = [melCall EXCEPT
                          !.early = r.early, !.reads = r.reads, !.stores = r.stores,
                          !.built = b,
                          !.bins = IF b THEN mel_bins(melCall.num_filters, melCall.fft_size,
                                                      melCall.sample_rate)
                                   ELSE NoBuf,
                          !.filter_bank =
                              IF b THEN create_mel_filter_bank(melCall.num_filters,
                                            melCall.fft_size, melCall.sample_rate)
                              ELSE NoBuf,
                          !.divisions =
                              IF b THEN filter_divisions(melCall.num_filters,
                                            melCall.fft_size, melCall.sample_rate)
                              ELSE {}]
    /\ phase' = "apply_mel_filter_bank"
    /\ UNCHANGED <<op, n, x, y, z, fftWrites, dctCall, mfccCall, fftTrace, history, vecCall, neonCall, loops, heap>>

\* compute_mfcc(audio, num_samples, sample_rate, mfcc, num_mfcc, num_filters)
CallComputeMfcc ==
    /\ op = "compute_mfcc" /\ phase = "start"
    /\ \E crash \in CrashPoints(mfccCall),
          garbage \in GarbageFor(mfccCall.num_filters, mfccCall.num_mfcc) :
          LET r == compute_mfcc(mfccCall, crash, garbage)
          IN  mfccCall' = [mfccCall EXCEPT
                             !.stages = r.stages, !.audioReads = r.audioReads,
                             !.audioWrites = r.audioWrites,
                             !.windowedReads = r.windowedReads,
                             !.fftRealWrites = r.fftRealWrites,
                             !.mfccStores = r.mfccStores,
                             !.mel_energies = r.mel_energies,
                             !.power = r.power,
                             !.outcome = r.outcome]
    /\ phase' = "compute_mfcc"
    /\ UNCHANGED <<op, n, x, y, z, fftWrites, dctCall, melCall, fftTrace, history, vecCall, neonCall, loops, heap>>

NextMfcc == CallDct \/ CallMel \/ CallComputeMfcc

SpecMfcc == InitMfcc /\ [][NextMfcc]_vars

-----------------------------------------------------------------------------
(* One process calling the MFCC entry points several times *)

MaxCalls == 3

\* the compute_mfcc calls of a sequence: full frames, accepted arguments
SeqMfccCalls ==
    {c \in MfccCalls :
        /\ ~c.audio_null /\ ~c.mfcc_null /\ c.num_samples = frame_size
        /\ <<c.num_mfcc, c.num_filters>> \in {<<1, 1>>, <<2, 1>>}}

\* the apply_mel_filter_bank calls of a sequence: accepted arguments, a
\* power spectrum of ones
SeqMelCalls ==
    {c \in MelCalls :
        /\ ~c.power_null /\ ~c.mel_null /\ WellFormedMel(c)
        /\ c.fft_size \in {2, 4} /\ c.num_filters \in {1, 2} /\ c.sample_rate = 1400
        /\ \A j \in DOMAIN c.power : c.power[j] = 1}

\* the process is still running: no earlier call crashed or threw
Alive == \A i \in 1 .. Len(history) : history[i].outcome = "returned"

InitSeq ==
    /\ op = "sequence" /\ phase = "start"
    /\ n = 0 /\ x = NoBuf /\ y = NoBuf /\ z = NoBuf /\ fftWrites = {}
    /\ dctCall = NoCall /\ melCall = NoCall /\ mfccCall = NoCall
    /\ fftTrace = NoCall /\ loops = NoCall /\ heap = <<>> /\ history = <<>> /\ vecCall = NoCall /\ neonCall = NoCall

\* one more compute_mfcc call of the same process; the floats past the end
\* of mel_energies are whatever the heap holds at that moment
SeqComputeMfcc ==
    /\ op = "sequence" /\ Len(history) < MaxCalls /\ Alive
    /\ \E c \in SeqMfccCalls :
          \E crash \in CrashPoints(c),
             garbage \in GarbageFor(c.num_filters, c.num_mfcc) :
             LET r == compute_mfcc(c, crash, garbage)
             IN  history' = Append(history, [call |-> c, outcome |-> r.outcome,
                                             out |-> r.mfccStores])
    /\ phase' = "compute_mfcc"
    /\ UNCHANGED <<op, n, x, y, z, fftWrites, dctCall, melCall, mfccCall,
                   fftTrace, vecCall, neonCall, loops, heap>>

\* one more apply_mel_filter_bank call of the same process
SeqMel ==
    /\ op = "sequence" /\ Len(history) < MaxCalls /\ Alive
    /\ \E c \in SeqMelCalls :
          LET r == apply_mel_filter_bank(c.power, c.power_null, c.mel_null,
                                         c.fft_size, c.sample_rate, c.num_filters)
          IN  history' = Append(history, [call |-> c, outcome |-> "returned",
                                          out |-> r.stores])
    /\ phase' = "apply_mel_filter_bank"
    /\ UNCHANGED <<op, n, x, y, z, fftWrites, dctCall, melCall, mfccCall,
                   fftTrace, vecCall, neonCall, loops, heap>>

NextSeq == SeqComputeMfcc \/ SeqMel

SpecSeq == InitSeq /\ [][NextSeq]_vars

-----------------------------------------------------------------------------
(* Callers of the vector primitives *)

MaxVecLen == 5

VecCap == MaxVecLen + 1

VecNames == {"vector_add", "vector_subtract", "vector_multiply", "vector_scale",
             "vector_multiply_accumulate"}

\* a call primitive(a, b, out, n) / vector_scale(in, scale, out, n) on buffers
\* of VecCap floats; out is either a buffer of its own or the buffer a
VecCalls ==
    { [op |-> name, n |-> k, a |-> av, b |-> [i \in 0 .. (VecCap - 1) |-> i + 2],
       scale |-> 3, alias |-> al,
       out |-> IF al THEN av ELSE [i \in 0 .. (VecCap - 1) |-> 7],
       result |-> NoBuf, writes |-> <<>>] :
        name \in VecNames, k \in 0 .. MaxVecLen,
        av \in [0 .. (VecCap - 1) -> 0 .. MaxVal], al \in BOOLEAN }

InitVec ==
    /\ op = "vector" /\ phase = "start"
    /\ n = 0 /\ x = NoBuf /\ y = NoBuf /\ z = NoBuf /\ fftWrites = {}
    /\ dctCall = NoCall /\ melCall = NoCall /\ mfccCall = NoCall
    /\ fftTrace = NoCall /\ loops = NoCall /\ heap = <<>> /\ history = <<>> /\ neonCall = NoCall
    /\ vecCall \in VecCalls

VecResult(c) ==
    CASE c.op = "vector_add"                 -> vector_add(c)
      [] c.op = "vector_subtract"            -> vector_subtract(c)
      [] c.op = "vector_multiply"            -> vector_multiply(c)
      [] c.op = "vector_scale"               -> vector_scale(c)
      [] c.op = "vector_multiply_accumulate" -> vector_multiply_accumulate(c)

\* the call of the primitive vecCall.op
CallVector ==
    /\ op = "vector" /\ phase = "start"
    /\ LET r == VecResult(vecCall)
       IN  vecCall' = [vecCall EXCEPT !.result = r.out, !.writes = r.writes]
    /\ phase' = "vector"
    /\ UNCHANGED <<op, n, x, y, z, fftWrites, dctCall, melCall, mfccCall,
                   fftTrace, history, neonCall, loops, heap>>

NextVec == CallVector

SpecVec == InitVec /\ [][NextVec]_vars

-----------------------------------------------------------------------------
(* Callers of fft in a build with HAVE_NEON *)

\* real input: n interleaved pairs with zero imaginary parts
RealBuffers(k) ==
    {[e \in 0 .. (BufLen(k) - 1) |-> IF e % 2 = 0 /\ e < 2 * k THEN v[e \div 2] ELSE 0] :
        v \in [0 .. (BufLen(k) \div 2 - 1) -> Vals]}

\* the four floats behind the 2n floats of the output buffer
NeonGarbage(k) == [(2 * k) .. (2 * k + 3) -> {0, 1}]

InitNeon ==
    /\ op = "fft_neon" /\ phase = "start"
    /\ n \in Sizes \cup BadSizes
    /\ x \in RealBuffers(n)
    /\ \E v \in {0, 1} : y = Filled(n, v)
    /\ z = NoBuf /\ fftWrites = {}
    /\ dctCall = NoCall /\ melCall = NoCall /\ mfccCall = NoCall
    /\ fftTrace = NoCall /\ loops = NoCall /\ heap = <<>> /\ history = <<>> /\ vecCall = NoCall
    /\ neonCall = [op |-> "fft", output |-> y, vecStages |-> {}, loads |-> {},
                   stores |-> {}, behind |-> NoBuf, outcome |-> "pending"]

\* fft(x, y, n), HAVE_NEON build.  An access behind the buffer either ends
\* the process or goes unnoticed.
CallFftNeon ==
    /\ op = "fft_neon" /\ phase = "start"
    /\ \E garbage \in NeonGarbage(n), crash \in BOOLEAN :
          LET r   == fft_neon(x, y, n, garbage)
              oob == (r.loads \cup r.stores) \ (0 .. (2 * n - 1))
          IN  /\ crash => oob # {}
              /\ y' = IF crash THEN StageLoop(bit_reverse(CopyLoop(x, y, n), n), n, 2, 0, 0)
                      ELSE [e \in DOMAIN y |-> r.mem[e]]
              /\ neonCall' = [neonCall EXCEPT
                                 !.vecStages = r.vecStages,
                                 !.loads = r.loads, !.stores = r.stores,
                                 !.behind = IF oob = {} THEN NoBuf
                                            ELSE [e \in oob |-> r.mem[e]],
                                 !.outcome = IF crash THEN "crashed" ELSE "returned"]
    /\ phase' = "fft_neon"
    /\ UNCHANGED <<op, n, x, z, fftWrites, dctCall, melCall, mfccCall,
                   fftTrace, history, vecCall, loops, heap>>

NextNeon == CallFftNeon

SpecNeon == InitNeon /\ [][NextNeon]_vars

-----------------------------------------------------------------------------
(* Callers of fft, the whole range of int *)

MaxRevLog == 5

\* the powers of two that fit int, and arguments the entry check rejects
LoopSizes ==
    {Pow(2, k) : k \in 0 .. 30}
        \cup {INT_MIN, 0 - 1, 0, 3, 6, 1073741825, INT_MAX}

InitLoops ==
    /\ op = "fft_loops" /\ phase = "start"
    /\ n \in LoopSizes
    /\ x = NoBuf /\ y = NoBuf /\ z = NoBuf /\ fftWrites = {}
    /\ dctCall = NoCall /\ melCall = NoCall /\ mfccCall = NoCall
    /\ fftTrace = NoCall /\ history = <<>> /\ vecCall = NoCall /\ neonCall = NoCall
    /\ loops = [op |-> "fft", len |-> 0, lens |-> <<>>, overflow |-> FALSE,
                exitBits |-> {}, largest |-> 0 - 1]
    /\ heap = <<>>

\* if (n <= 0 || (n & (n - 1)) != 0) return;
FftRejects ==
    /\ op = "fft_loops" /\ phase = "start"
    /\ InvalidSize(n) = TRUE      \* || does not evaluate n - 1 when n <= 0
    /\ phase' = "returned"
    /\ UNCHANGED <<op, n, x, y, z, fftWrites, dctCall, melCall, mfccCall,
                   fftTrace, history, vecCall, neonCall, loops, heap>>

\* the copy loop, bit_reverse(output, n) and the initialisation len = 2.
\* The loops of bit_reverse are run for n up to 2^MaxRevLog; above that its
\* outer loop has n - 1 iterations, which are not enumerated.
FftCopyAndBitReverse ==
    /\ op = "fft_loops" /\ phase = "start" /\ ~InvalidSize(n)
    /\ loops' = [loops EXCEPT
                    !.len = 2,
                    !.largest = LargestIndex(n),
                    !.exitBits = IF n <= Pow(2, MaxRevLog)
                                 THEN BitReverseExitBits(n, 1, 0) ELSE {}]
    /\ phase' = "stages"
    /\ UNCHANGED <<op, n, x, y, z, fftWrites, dctCall, melCall, mfccCall,
                   fftTrace, history, vecCall, neonCall, heap>>

\* one iteration of for (len = 2; len <= n; len <<= 1) with len > 0: the
\* loops over i and j end (i + len <= n), then len <<= 1
FftStage ==
    /\ op = "fft_loops" /\ phase = "stages"
    /\ 0 < loops.len /\ loops.len <= n
    /\ loops' = [loops EXCEPT
                    !.lens = Append(loops.lens, loops.len),
                    !.overflow = loops.overflow \/ ShiftOverflows(loops.len),
                    !.len = ShiftLeft1(loops.len)]
    /\ UNCHANGED <<op, phase, n, x, y, z, fftWrites, dctCall, melCall, mfccCall,
                   fftTrace, history, vecCall, neonCall, heap>>

\* an iteration entered with len <= 0 <= n: half_len <= 0, so the loop over
\* j is empty and i += len never makes i reach n; i itself overflows.  The
\* call either never returns or ends the process.
FftStageNeverEnds ==
    /\ op = "fft_loops" /\ phase = "stages"
    /\ loops.len <= 0 /\ loops.len <= n
    /\ phase' \in {"hang", "crashed"}
    /\ UNCHANGED <<op, n, x, y, z, fftWrites, dctCall, melCall, mfccCall,
                   fftTrace, history, vecCall, neonCall, loops, heap>>

\* len > n: the stage loop exits and fft returns
FftReturns ==
    /\ op = "fft_loops" /\ phase = "stages"
    /\ loops.len > n
    /\ phase' = "returned"
    /\ UNCHANGED <<op, n, x, y, z, fftWrites, dctCall, melCall, mfccCall,
                   fftTrace, history, vecCall, neonCall, loops, heap>>

NextLoops ==
    FftRejects \/ FftCopyAndBitReverse \/ FftStage \/ FftStageNeverEnds \/ FftReturns

SpecLoops == InitLoops /\ [][NextLoops]_vars

-----------------------------------------------------------------------------
(* Callers of fft, ifft and compute_mfcc, the buffers the library allocates *)

MaxHeapCalls == 3

\* new float[count] and the construction of a std::vector<float>(count):
\* one more live buffer (new float[0] is a live buffer too)
NewArray(h, owner, name, count) ==
    Append(h, [owner |-> owner, name |-> name, floats |-> count])

\* precompute_twiddle_factors(n, &w_real, &w_imag)
precompute_twiddle_factors(h, k) ==
    NewArray(NewArray(h, "ifft", "w_real", k \div 2), "ifft", "w_imag", k \div 2)

\* the floats "for (int i = 0; i < 2 * n; i += 8)" loads from &input[i] and
\* stores to &output[i] with vld2q_f32 / vst2q_f32: eight per iteration
NeonBlockIndices(k) ==
    UNION {i .. (i + 7) : i \in {j \in 0 .. (2 * k - 1) : j % 8 = 0}}

\* the floats fft(output, output, n) touches in either build
fft_touched(k, have_neon) ==
    IF InvalidSize(k) THEN {}
    ELSE IF have_neon
    THEN LET r == fft_neon(Filled(k, 0), Filled(k, 0), k,
                           [e \in (2 * k) .. (2 * k + 3) |-> 0])
         IN  (0 .. (2 * k - 1)) \cup r.loads \cup r.stores
    ELSE 0 .. (2 * k - 1)

\* ifft(input, output, n): the live buffers when it returns and the floats
\* of its arguments it touched.  No path of ifft reaches
\* free_twiddle_factors, and nothing else deletes w_real and w_imag.
ifft_heap(h, k, have_neon) ==
    IF InvalidSize(k) THEN [heap |-> h, touched |-> {}]
    ELSE IF have_neon
    THEN [heap    |-> precompute_twiddle_factors(h, k),
          touched |-> NeonBlockIndices(k) \cup fft_touched(k, TRUE)]
    ELSE [heap |-> h, touched |-> 0 .. (2 * k - 1)]

\* the std::vector locals of compute_mfcc, in the order of construction
MfccLocals(c) ==
    <<[owner |-> "compute_mfcc", name |-> "windowed", floats |-> frame_size],
      [owner |-> "compute_mfcc", name |-> "fft_real", floats |-> frame_size],
      [owner |-> "compute_mfcc", name |-> "fft_imag", floats |-> frame_size],
      [owner |-> "compute_mfcc", name |-> "power", floats |-> frame_size \div 2 + 1],
      [owner |-> "compute_mfcc", name |-> "mel_energies", floats |-> c.num_filters]>>

\* compute_mfcc: the live buffers when it returns; the destructors of the
\* locals run at the end of the scope
compute_mfcc_heap(h, c) ==
    LET inScope == h \o MfccLocals(c)
    IN  SubSeq(inScope, 1, Len(inScope) - Len(MfccLocals(c)))

\* the build is chosen once, at compile time
InitHeap ==
    /\ op = "heap" /\ phase = "start"
    /\ n = 0 /\ x = NoBuf /\ y = NoBuf /\ z = NoBuf /\ fftWrites = {}
    /\ dctCall = NoCall /\ melCall = NoCall /\ mfccCall = NoCall
    /\ fftTrace = NoCall /\ loops = NoCall /\ vecCall = NoCall
    /\ \E b \in BOOLEAN : neonCall = [op |-> "build", have_neon |-> b]
    /\ history = <<>>
    /\ heap = <<>>

\* fft(input, output, n) on buffers of 2n floats.  An access behind the
\* buffers either ends the process or goes unnoticed.
HeapFft ==
    /\ op = "heap" /\ Len(history) < MaxHeapCalls /\ Alive
    /\ \E k \in Sizes \cup BadSizes, crash \in BOOLEAN :
          /\ crash => fft_touched(k, neonCall.have_neon) \ (0 .. (2 * k - 1)) # {}
          /\ n' = k
          /\ history' = Append(history,
                 [call |-> "fft", outcome |-> IF crash THEN "crashed" ELSE "returned"])
    /\ phase' = "fft"
    /\ UNCHANGED <<op, x, y, z, fftWrites, dctCall, melCall, mfccCall,
                   fftTrace, vecCall, neonCall, loops, heap>>

\* ifft(input, output, n) on buffers of 2n floats
HeapIfft ==
    /\ op = "heap" /\ Len(history) < MaxHeapCalls /\ Alive
    /\ \E k \in Sizes \cup BadSizes, crash \in BOOLEAN :
          LET r == ifft_heap(heap, k, neonCall.have_neon)
          IN  /\ crash => r.touched \ (0 .. (2 * k - 1)) # {}
              /\ n' = k
              /\ heap' = r.heap
              /\ history' = Append(history,
                     [call |-> "ifft", outcome |-> IF crash THEN "crashed" ELSE "returned"])
    /\ phase' = "ifft"
    /\ UNCHANGED <<op, x, y, z, fftWrites, dctCall, melCall, mfccCall,
                   fftTrace, vecCall, neonCall, loops>>

\* compute_mfcc on a full frame
HeapComputeMfcc ==
    /\ op = "heap" /\ Len(history) < MaxHeapCalls /\ Alive
    /\ \E c \in SeqMfccCalls :
          \E crash \in CrashPoints(c) :
             LET garbage == CHOOSE g \in GarbageFor(c.num_filters, c.num_mfcc) : TRUE
                 r       == compute_mfcc(c, crash, garbage)
             IN  /\ history' = Append(history, [call |-> "compute_mfcc",
                                                outcome |-> r.outcome])
                 /\ heap' = compute_mfcc_heap(heap, c)
    /\ n' = frame_size
    /\ phase' = "compute_mfcc"
    /\ UNCHANGED <<op, x, y, z, fftWrites, dctCall, melCall, mfccCall,
                   fftTrace, vecCall, neonCall, loops>>

NextHeap == HeapFft \/ HeapIfft \/ HeapComputeMfcc

SpecHeap == InitHeap /\ [][NextHeap]_vars

-----------------------------------------------------------------------------
(* Reference definitions used by the properties *)

RECURSIVE SumTo(_, _)
\* sum of f[0] .. f[k - 1]
SumTo(f, k) == IF k <= 0 THEN 0 ELSE f[k - 1] + SumTo(f, k - 1)

\* real / imaginary part of bin b of the unscaled DFT of the real samples
\* input[0], input[2], ..., input[2(k - 1)]; exp(-2 pi i * i*b/k) is a whole
\* number of quarter turns for k in Sizes
DftRe(input, k, b) ==
    SumTo([i \in 0 .. (k - 1) |-> input[2 * i] * cosf_q(0 - ((4 * i * b) \div k))], k)

DftIm(input, k, b) ==
    SumTo([i \in 0 .. (k - 1) |-> input[2 * i] * sinf_q(0 - ((4 * i * b) \div k))], k)

\* i with its log2(k) low bits in reverse order, k a power of two
RECURSIVE RevBits(_, _)
RevBits(i, k) ==
    IF k <= 1 THEN 0 ELSE (i % 2) * (k \div 2) + RevBits(i \div 2, k \div 2)

ImagZero(buf, k) == \A i \in 0 .. (k - 1) : buf[2 * i + 1] = 0

Energy(buf, len) == SumTo([e \in 0 .. (len - 1) |-> buf[e] * buf[e]], len)

-----------------------------------------------------------------------------
(* Properties, FFT engine *)

\* C1: for power-of-two n and any complex x of n interleaved pairs,
\* ifft(fft(x, n), n) equals x elementwise.
C1_RoundTrip ==
    (phase = "roundtrip" /\ n \in Sizes)
        => \A e \in 0 .. (2 * n - 1) : RatEq(z[e], RatOf(x[e]))

\* C2: after fft(input, output, n) the output holds the unscaled DFT of the
\* real samples x[i] = input[2i], bin k at (output[2k], output[2k+1]).
C2_FftIsDft ==
    (phase = "fft" /\ n \in Sizes)
        => \A b \in 0 .. (n - 1) :
              y[2 * b] = DftRe(x, n, b) /\ y[2 * b + 1] = DftIm(x, n, b)

\* C5: fft and ifft called with n <= 0 or n not a power of two leave the
\* input and the output buffer as they were and store to no output index.
C5_InvalidSizeNoComputation ==
    [][(n \in BadSizes) => (x' = x /\ y' = y /\ z' = z /\ fftWrites' = {} )]_vars

C5_Witness == n \in {3, 6} /\ phase \in {"fft", "ifft"} /\ x[0] # y[0] /\ x[2] # y[2]

C18_BitReversePairs ==
    (phase \in {"fft", "ifft"} /\ fftTrace.op = "bit_reverse")
        => \A i \in 0 .. (fftTrace.n - 1) :
              /\ fftTrace.after[2 * i] = fftTrace.before[2 * RevBits(i, fftTrace.n)]
              /\ fftTrace.after[2 * i + 1] = fftTrace.before[2 * RevBits(i, fftTrace.n) + 1]

\* C20: in a build with HAVE_NEON, fft takes the 4-wide butterfly step only
\* in stages with half_len >= 4, every 4-wide load and store touches only
\* indices in [0, 2n), and the output equals the output of the scalar path.
C20_NeonRefinesScalar ==
    (phase = "fft_neon" /\ n \in Sizes)
        => /\ \A len \in neonCall.vecStages : len \div 2 >= 4
           /\ \A e \in neonCall.loads \cup neonCall.stores : 0 <= e /\ e < 2 * n
           /\ neonCall.outcome = "returned"
           /\ y = fft(x, neonCall.output, n)

\* k with 2^k = v, v a power of two
RECURSIVE Log2(_)
Log2(v) == IF v <= 1 THEN 0 ELSE 1 + Log2(v \div 2)

\* C21: fft terminates for every int n: it returns at once when n is
\* invalid, and for n = 2^k, 0 <= k <= 30, the inner loop of bit_reverse
\* exits with bit >= 1, the stage loop runs the k stages len = 2, 4, ..., n
\* and exits, and neither len nor a buffer index overflows.
C21_FftTerminates ==
    (op = "fft_loops" /\ phase # "start") =>
        IF InvalidSize(n)
        THEN phase = "returned" /\ loops.lens = <<>> /\ loops.len = 0
        ELSE /\ phase \in {"stages", "returned"}
             /\ ~loops.overflow
             /\ \A b \in loops.exitBits : b >= 1
             /\ loops.largest <= INT_MAX
             /\ \A s \in 1 .. Len(loops.lens) : loops.lens[s] = Pow(2, s)
             /\ (phase = "returned" => Len(loops.lens) = Log2(n))

-----------------------------------------------------------------------------
(* Properties, MFCC stages *)

ValidMfccArgs(c) ==
    /\ ~c.audio_null /\ ~c.mfcc_null
    /\ c.num_samples >= frame_size
    /\ c.num_mfcc >= 1 /\ c.num_filters >= 1

\* C3: compute_mfcc with valid arguments writes exactly outMfcc[0 .. numMfcc-1],
\* no element at index >= numMfcc, and leaves the audio buffer unchanged.
C3_WritesExactlyNumMfcc ==
    (phase = "compute_mfcc" /\ ValidMfccArgs(mfccCall) /\ mfccCall.outcome = "returned")
        => /\ DOMAIN mfccCall.mfccStores = 0 .. (mfccCall.num_mfcc - 1)
           /\ mfccCall.audioWrites = {}

\* C4: compute_mfcc checks its preconditions at entry: with too few samples,
\* a null buffer or a non-positive count it reads no audio element at index
\* >= numSamples, runs no stage of the pipeline and writes nothing to outMfcc.
C4_PreconditionsChecked ==
    (phase = "compute_mfcc" /\ ~ValidMfccArgs(mfccCall))
        => /\ \A i \in mfccCall.audioReads : i < mfccCall.num_samples
           /\ mfccCall.stages = <<>>
           /\ mfccCall.mfccStores = <<>>

\* the dot product of power[0 .. fftSize/2] with a filter row
MelEnergyRef(power, row, fft_size) == DotUpTo(power, row, FilterRowSize(fft_size))

\* C6: apply_mel_filter_bank with non-null buffers, fftSize > 0, sampleRate > 0
\* and numFilters > 0 does not return early and writes every mel_energies[i]
\* with the log of the floored dot product of power with filter row i.
C6_MelWritesAll ==
    (/\ phase = "apply_mel_filter_bank"
     /\ ~melCall.power_null /\ ~melCall.mel_null
     /\ melCall.fft_size > 0 /\ melCall.sample_rate > 0 /\ melCall.num_filters > 0)
        => /\ ~melCall.early
           /\ DOMAIN melCall.stores = 0 .. (melCall.num_filters - 1)
           /\ \A i \in 0 .. (melCall.num_filters - 1) :
                 melCall.stores[i] =
                    LogF(MelEnergyRef(melCall.power,
                                      FilterRow(i, melCall.num_filters, melCall.fft_size,
                                                melCall.sample_rate),
                                      melCall.fft_size))

\* coefficient k of the DCT-II of input[0 .. n-1]: cosine denominator 2n,
\* scale sqrt(2/n), 1/sqrt(2) for k = 0
DctRef(input, k, cnt) ==
    [scale   |-> <<2, cnt>>,
     k_scale |-> IF k = 0 THEN "1/sqrt2" ELSE "1",
     terms   |-> [i \in 0 .. (cnt - 1) |->
                    [v |-> input[i], angle |-> <<k * (2 * i + 1), 2 * cnt>>]]]

\* C7: dct(input, output, n, m) with n > 0, m > 0 reads exactly input[0 .. n-1]
\* and writes exactly output[0 .. m-1], output[k] being the DCT-II sum over
\* all n inputs.
C7_DctShape ==
    (/\ phase = "dct" /\ ~dctCall.input_null /\ ~dctCall.output_null
     /\ dctCall.n > 0 /\ dctCall.m > 0)
        => /\ dctCall.reads = 0 .. (dctCall.n - 1)
           /\ DOMAIN dctCall.stores = 0 .. (dctCall.m - 1)
           /\ \A k \in 0 .. (dctCall.m - 1) :
                 dctCall.stores[k] = DctRef(dctCall.input, k, dctCall.n)

\* a coefficient whose every term multiplies the literal 0 is exactly 0
CoefIsZero(coef) == \A i \in DOMAIN coef.terms : coef.terms[i].v = Lit(0)

\* sign of a coefficient: 0 when it is exactly 0; the sign of the sum of the
\* inputs when every cosine is cos(0) = 1 and the inputs are literals;
\* 2 when the expression does not determine it
CoefSign(coef) ==
    IF CoefIsZero(coef) THEN 0
    ELSE IF \A i \in DOMAIN coef.terms :
               coef.terms[i].angle[1] = 0 /\ coef.terms[i].v.k = "lit"
    THEN LET total == SumTo([i \in DOMAIN coef.terms |-> coef.terms[i].v.v],
                            Cardinality(DOMAIN coef.terms))
         IN  IF total > 0 THEN 1 ELSE IF total < 0 THEN 0 - 1 ELSE 0
    ELSE 2

TestShape(c) ==
    /\ ValidMfccArgs(c) /\ c.sample_rate = 16000
    /\ c.num_filters = 26 /\ c.num_mfcc = 13

\* C8: compute_mfcc on a 1 kHz sine frame (16 kHz, 26 filters, 13 coefficients)
\* returns a vector that is not all zero and whose 0th coefficient is > 0.
C8_SinePositiveEnergy ==
    (phase = "compute_mfcc" /\ TestShape(mfccCall) /\ mfccCall.audio = "sine"
     /\ mfccCall.outcome = "returned")
        => /\ 0 .. 12 \subseteq DOMAIN mfccCall.mfccStores
           /\ CoefSign(mfccCall.mfccStores[0]) = 1
           /\ \E k \in 0 .. 12 : ~CoefIsZero(mfccCall.mfccStores[k])

\* C9: compute_mfcc on an all-zero frame (16 kHz, 26 filters, 13 coefficients)
\* returns a vector whose 0th coefficient is strictly negative.
C9_SilenceNegativeEnergy ==
    (phase = "compute_mfcc" /\ TestShape(mfccCall) /\ mfccCall.audio = "silence"
     /\ mfccCall.outcome = "returned")
        => /\ 0 .. 12 \subseteq DOMAIN mfccCall.mfccStores
           /\ CoefSign(mfccCall.mfccStores[0]) = 0 - 1

\* C17: the call fft(windowed, fft_real, frame_size) of compute_mfcc, whose
\* two buffers hold frame_size floats each, reads and writes no index
\* >= frame_size.
C17_FftInsideFrameBuffers ==
    (phase = "compute_mfcc" /\ Len(mfccCall.stages) >= 3)
        => /\ \A i \in mfccCall.windowedReads : i < frame_size
           /\ \A i \in mfccCall.fftRealWrites : i < frame_size

\* C19: power[k], k in [0, frame_size/2], is re(X[k])^2 + im(X[k])^2 plus
\* the floor, with X[k] = (out[2k], out[2k+1]) of fft's interleaved output.
C19_PowerFromInterleavedBins ==
    (phase = "compute_mfcc" /\ Len(mfccCall.stages) >= 4)
        => \A k \in 0 .. (frame_size \div 2) :
              /\ mfccCall.power[k].re = FftOut(2 * k)
              /\ mfccCall.power[k].im = FftOut(2 * k + 1)
              /\ mfccCall.power[k].plus = "1e-10f"

-----------------------------------------------------------------------------
(* Properties, Mel filter bank *)

MelBuilt == phase = "apply_mel_filter_bank" /\ melCall.built

\* C13 as stated: the numFilters + 2 boundaries lie in [1, fftSize/2] and
\* are strictly increasing.
C13_BinsStrictlyIncreasing ==
    MelBuilt =>
        \A i \in DOMAIN melCall.bins :
            /\ 1 <= melCall.bins[i] /\ melCall.bins[i] <= melCall.fft_size \div 2
            /\ (i + 1 \in DOMAIN melCall.bins => melCall.bins[i] < melCall.bins[i + 1])

\* C13 (amended): the numFilters + 2 boundaries are at least 1, at most
\* fftSize/2 when fftSize >= 2 (all equal to 1 when fftSize = 1), and
\* non-decreasing.
C13_BinsNonDecreasing ==
    MelBuilt =>
        \A i \in DOMAIN melCall.bins :
            /\ 1 <= melCall.bins[i]
            /\ melCall.bins[i] <= Max(1, melCall.fft_size \div 2)
            /\ (i + 1 \in DOMAIN melCall.bins => melCall.bins[i] <= melCall.bins[i + 1])

C13_Witness ==
    /\ MelBuilt /\ melCall.fft_size = 8 /\ melCall.num_filters = 3
    /\ melCall.bins[0] = melCall.bins[1]
    /\ melCall.bins[3] < melCall.bins[4]

Weight01(w) == 0 <= w[1] /\ w[1] <= w[2]

\* C14: for adjacent filters i, i+1 with bin[i+1] < bin[i+2], at every j in
\* [bin[i+1], bin[i+2]) the falling weight of filter i and the rising weight
\* of filter i+1 add up to 1, every weight is in [0, 1], and no other filter
\* has a non-zero weight at j.
C14_Partition ==
    MelBuilt =>
        \A i \in 0 .. (melCall.num_filters - 2) :
            \A j \in melCall.bins[i + 1] .. (melCall.bins[i + 2] - 1) :
                /\ RatEq(RatAdd(melCall.filter_bank[i][j], melCall.filter_bank[i + 1][j]),
                         RatOf(1))
                /\ \A f \in 0 .. (melCall.num_filters - 1) :
                      /\ Weight01(melCall.filter_bank[f][j])
                      /\ (f \notin {i, i + 1} => melCall.filter_bank[f][j][1] = 0)

C14_Witness ==
    /\ MelBuilt /\ melCall.num_filters = 3
    /\ melCall.bins[2] + 1 < melCall.bins[3]
    /\ melCall.filter_bank[1][melCall.bins[2] + 1][1] > 0
    /\ melCall.filter_bank[2][melCall.bins[2] + 1][1] > 0

\* C15: create_mel_filter_bank evaluates no quotient whose denominator is 0,
\* and a zero-width segment (two equal adjacent boundaries) contributes no
\* weight: its loop stores nothing.
C15_NoDivisionByZero ==
    MelBuilt =>
        /\ \A d \in melCall.divisions : d.den # 0
        /\ \A i \in 0 .. (melCall.num_filters - 1) :
              /\ melCall.bins[i] = melCall.bins[i + 1] =>
                    ~\E d \in melCall.divisions : d.filter = i /\ d.side = "left"
              /\ melCall.bins[i + 1] = melCall.bins[i + 2] =>
                    ~\E d \in melCall.divisions : d.filter = i /\ d.side = "right"
              /\ (melCall.bins[i] = melCall.bins[i + 1]
                     /\ melCall.bins[i + 1] = melCall.bins[i + 2]) =>
                    \A j \in DOMAIN melCall.filter_bank[i] :
                        melCall.filter_bank[i][j][1] = 0

C15_Witness ==
    /\ MelBuilt /\ melCall.num_filters = 2
    /\ melCall.bins[0] = melCall.bins[1] /\ melCall.bins[1] = melCall.bins[2]
    /\ melCall.bins[2] < melCall.bins[3]
    /\ \E d \in melCall.divisions : d.filter = 1 /\ d.side = "right"

-----------------------------------------------------------------------------
(* Properties, vector primitives *)

\* what the documentation of the primitive asks of out[i], from the values
\* a[i], b[i], out[i] held before the call
VecExpected(c, i) ==
    CASE c.op = "vector_add"                 -> c.a[i] + c.b[i]
      [] c.op = "vector_subtract"            -> c.a[i] - c.b[i]
      [] c.op = "vector_multiply"            -> c.a[i] * c.b[i]
      [] c.op = "vector_scale"               -> c.a[i] * c.scale
      [] c.op = "vector_multiply_accumulate" -> c.out[i] + c.a[i] * c.b[i]

\* C16: each primitive stores out[i] = a[i] op b[i] (in[i] * scale;
\* out[i] + a[i] * b[i]) for exactly the indices 0 .. n-1, each once, also
\* when out aliases a, and stores nothing at an index >= n.
C16_ElementWise ==
    (phase = "vector") =>
        /\ vecCall.writes = [i \in 1 .. vecCall.n |-> i - 1]
        /\ \A i \in 0 .. (VecCap - 1) :
              vecCall.result[i] = IF i < vecCall.n THEN VecExpected(vecCall, i)
                                  ELSE vecCall.out[i]

C16_Witness ==
    /\ phase = "vector" /\ vecCall.n = 5 /\ vecCall.alias
    /\ vecCall.op = "vector_multiply_accumulate"
    /\ vecCall.a[4] = 1 /\ vecCall.result[4] = 1 + 1 * 6
    /\ Len(vecCall.writes) = 5

-----------------------------------------------------------------------------
(* Properties, sequences of MFCC calls *)

\* C12: in any sequence of compute_mfcc and apply_mel_filter_bank calls, two
\* calls with identical arguments (frame, sample rate, numMfcc, numFilters,
\* fftSize) return identical outputs, whatever calls ran before or between.
C12_Determinism ==
    \A i, j \in 1 .. Len(history) :
        (/\ history[i].call = history[j].call
         /\ history[i].outcome = "returned" /\ history[j].outcome = "returned")
            => history[i].out = history[j].out

-----------------------------------------------------------------------------
(* Properties, buffers allocated inside the library *)

\* C22: ifft releases every buffer it allocates before it returns, the two
\* twiddle-factor tables of the HAVE_NEON build included: while the process
\* runs, after any sequence of fft, ifft and compute_mfcc calls no buffer
\* allocated inside the library is live.
C22_NoLiveBuffers ==
    (op = "heap" /\ Alive) => Len(heap) = 0

=============================================================================
